---- MODULE Spec2Model ----
(***************************************************************************)
(* DeviceHostFile (dask_cuda/device_host_file.py): a three-level cache     *)
(* device -> host -> disk built from two nested zict Buffers.              *)
(*                                                                         *)
(*   host_buffer   = Buffer(host dict,   Func(serialize_bytelist,          *)
(*                          deserialize_bytes, File), memory_limit)        *)
(*   device_buffer = Buffer(device dict, Func(device_to_host,              *)
(*                          host_to_device, host_buffer),                  *)
(*                          device_memory_limit)                           *)
(*                                                                         *)
(* Every operation of the mapping is one atomic step (the class is used    *)
(* from a single thread).  A method is modelled as a function from a       *)
(* "frame" (the mutable state plus the pending exception and the return    *)
(* value) to a frame; once a frame carries an exception the remaining      *)
(* statements of the call are skipped, as when Python unwinds the stack.   *)
(***************************************************************************)
EXTENDS Integers, Sequences, FiniteSets, TLC

\* ------------------------------------------------------------------ bounds
Keys == {"a", "b", "c"}

\* the keys of the exhaustive exploration
Keys2 == {"a", "b"}

\* weights (bytes reported by sizeof) of the values that are stored
MaxWeight == 3

\* the call, counted within one operation, on which a transform raises
MaxFail == 2

\* the number of operations applied to a fresh DeviceHostFile when all three
\* keys are used
MaxOps == 4

\* device_memory_limit and memory_limit given to the constructor
DeviceLimit == 2
HostLimit == 2

\* ------------------------------------------------------------------ values
\* A value is one frame of w bytes, either a device buffer or a host object.
Values == [cls : {"dev", "host"}, w : 1..MaxWeight]

\* the values that fit in the device tier
LightValues == {v \in Values : v.w <= DeviceLimit}

NoValue == [cls |-> "none"]

is_device_object(v) == v.cls = "dev"

IsDeviceSerialized(x) == "parts" \in DOMAIN x

\* device_to_host: serialize with the cuda serializer, copy the cuda frames
\* to host memory and remember which frames were cuda frames.
device_to_host(obj) ==
    LET frames == << [cuda |-> (obj.cls = "dev"), nbytes |-> obj.w] >>
        is_cuda == [i \in DOMAIN frames |-> frames[i].cuda]
    IN  [header |-> [subheader |-> [type |-> obj.cls], iscuda |-> is_cuda],
         parts  |-> [i \in DOMAIN frames |-> [cuda |-> FALSE, nbytes |-> frames[i].nbytes]]]

\* host_to_device: copy the flagged parts back to the device and deserialize.
host_to_device(s) ==
    LET frames == [i \in DOMAIN s.parts |->
                      [cuda |-> s.header.iscuda[i], nbytes |-> s.parts[i].nbytes]]
    IN  [cls |-> s.header.subheader.type, w |-> frames[1].nbytes]

\* serialize_bytelist / deserialize_bytes: the bytes written to a file.
serialize_bytelist(v) == [bytes |-> v]

deserialize_bytes(b) == b.bytes

RECURSIVE SumNbytes(_)
SumNbytes(parts) ==
    IF parts = << >> THEN 0 ELSE Head(parts).nbytes + SumNbytes(Tail(parts))

\* DeviceSerialized.__sizeof__ and sizeof of a plain value
sizeof(v) == IF IsDeviceSerialized(v) THEN SumNbytes(v.parts) ELSE v.w

\* distributed.worker.weight(k, v) = sizeof(v)
weight(k, v) == sizeof(v)

\* ------------------------------------------------------------------ state
VARIABLES
    device,       \* device_buffer.fast.d : key -> device object
    device_heap,  \* device_buffer.fast.heap, least recently used first
    host,         \* host_buffer.fast.d   : key -> host object or DeviceSerialized
    host_heap,    \* host_buffer.fast.heap, least recently used first
    disk,         \* host_buffer.slow.d   : key -> file contents
    device_keys,  \* self.device_keys
    last,         \* the last operation: [op, key, val, out, ret]
    live,         \* keys set successfully and not deleted since
    devset,       \* keys set with a device object since their last delete
    clean,        \* no copy between tiers and no file access has raised so far
    scen,         \* progress through: set a, set b, get a, set c (or: set a, set b, get a)
    copied,       \* keys handed to device_to_host or host_to_device by the last operation
    moves,        \* values the last operation sent from a tier to the next or back
    nops          \* operations applied so far

vars == << device, device_heap, host, host_heap, disk, device_keys,
           last, live, devset, clean, scen, copied, moves, nops >>

\* ------------------------------------------------------------------ helpers
Put(f, k, v) == [x \in (DOMAIN f) \cup {k} |-> IF x = k THEN v ELSE f[x]]

Remove(f, k) == [x \in (DOMAIN f) \ {k} |-> f[x]]

Without(seq, k) == SelectSeq(seq, LAMBDA x : x # k)

Limit(t) == IF t = "device" THEN DeviceLimit ELSE HostLimit

Failed(s) == s.err # "none"

Raise(s, e) == [s EXCEPT !.err = e]

\* a value sets out from a tier to the next one, or back
Move(s) == [s EXCEPT !.moves = s.moves + 1]

\* device_to_host or host_to_device is called for the value of key k
Called(s, k) == [s EXCEPT !.copied = s.copied \cup {k}]

\* A call that can raise (a copy between device and host, a file read or
\* write): the f-th such call of the operation raises.
Tick(s) ==
    LET s1 == [s EXCEPT !.n = s.n + 1]
    IN  IF s1.n = s1.f THEN Raise(s1, "IOError") ELSE s1

RECURSIVE SumWeights(_, _)
SumWeights(d, ks) ==
    IF ks = {} THEN 0
    ELSE LET k == CHOOSE x \in ks : TRUE
         IN  weight(k, d[k]) + SumWeights(d, ks \ {k})

\* LRU.total_weight
total_weight(s, t) == SumWeights(s.d[t], DOMAIN s.d[t])

\* ------------------------------------------------------------------ File + Func(serialize_bytelist, deserialize_bytes, File)
disk_func_setitem(s, k, v) ==
    LET s1 == Tick(s)
    IN  IF Failed(s1) THEN s1
        ELSE [s1 EXCEPT !.disk = Put(s1.disk, k, serialize_bytelist(v))]

disk_func_getitem(s, k) ==
    IF k \notin DOMAIN s.disk THEN Raise(s, "KeyError")
    ELSE LET s1 == Tick(s)
         IN  IF Failed(s1) THEN s1
             ELSE [s1 EXCEPT !.ret = deserialize_bytes(s1.disk[k])]

disk_func_delitem(s, k) ==
    IF k \notin DOMAIN s.disk THEN Raise(s, "KeyError")
    ELSE [s EXCEPT !.disk = Remove(s.disk, k)]

\* ------------------------------------------------------------------ zict LRU and Buffer, t in {"device", "host"}
\* Buffer(fast, slow, n, weight) keeps fast = LRU(n, fast, weight,
\* on_evict=[fast_to_slow]).  The LRU keeps its keys in a heap ordered by the
\* time of their last use; here the heap is the sequence of the keys, the
\* least recently used first.  LRU.weights and LRU.total_weight are functions
\* of the stored values, since weight is a function of the value.
RECURSIVE fast_to_slow(_, _, _, _)
RECURSIVE LRU_evict_loop(_, _)
RECURSIVE LRU_setitem(_, _, _, _)
RECURSIVE Buffer_setitem(_, _, _, _)
RECURSIVE Buffer_getitem(_, _, _)
RECURSIVE Buffer_delitem(_, _, _)
RECURSIVE Buffer_contains(_, _, _)

\* LRU.__delitem__: del self.d[key]; del self.heap[key];
\* self.total_weight -= self.weights.pop(key)
LRU_delitem(s, t, k) ==
    IF k \notin DOMAIN s.d[t] THEN Raise(s, "KeyError")
    ELSE [s EXCEPT !.d[t] = Remove(s.d[t], k), !.heap[t] = Without(s.heap[t], k)]

\* a __getitem__ that forgets "self.heap[key] = self.i"
LRU_getitem_norefresh(s, t, k) ==
    IF k \notin DOMAIN s.d[t] THEN Raise(s, "KeyError")
    ELSE [s EXCEPT !.ret = s.d[t][k]]

\* LRU.__getitem__: result = self.d[key]; self.i += 1;
\* self.heap[key] = self.i: the key becomes the most recently used
LRU_getitem(s, t, k) ==
    IF k \notin DOMAIN s.d[t] THEN Raise(s, "KeyError")
    ELSE [s EXCEPT !.ret = s.d[t][k],
                   !.heap[t] = Append(Without(s.heap[t], k), k)]

\* LRU.evict: k, priority = self.heap.popitem(); weight = self.weights.pop(k);
\* self.total_weight -= weight; v = self.d.pop(k); then cb(k, v) for the
\* on_evict callbacks: the key has left the LRU when the callback runs
LRU_evict(s, t) ==
    LET k  == Head(s.heap[t])
        v  == s.d[t][k]
        s1 == [s EXCEPT !.heap[t] = Tail(s.heap[t]), !.d[t] = Remove(s.d[t], k)]
    IN  fast_to_slow(s1, t, k, v)

\* an "if" in place of the "while": one eviction at most
LRU_evict_once(s, t) ==
    IF Failed(s) THEN s
    ELSE IF total_weight(s, t) > Limit(t) THEN LRU_evict(s, t)
    ELSE s

\* LRU.__setitem__: "while self.total_weight > self.n: self.evict()"
LRU_evict_loop(s, t) ==
    IF Failed(s) THEN s
    ELSE IF total_weight(s, t) > Limit(t) THEN LRU_evict_loop(LRU_evict(s, t), t)
    ELSE s

\* LRU.__setitem__: if key in self.d: del self[key]; if weight <= self.n the
\* value is stored as the most recently used, else it is handed to on_evict;
\* then the eviction loop
LRU_setitem(s, t, k, v) ==
    LET s1 == IF k \in DOMAIN s.d[t] THEN LRU_delitem(s, t, k) ELSE s
        s2 == IF weight(k, v) <= Limit(t)
              THEN [s1 EXCEPT !.d[t] = Put(s1.d[t], k, v),
                              !.heap[t] = Append(s1.heap[t], k)]
              ELSE fast_to_slow(s1, t, k, v)
    IN  LRU_evict_loop(s2, t)

\* slow.__contains__: File for the host buffer, Func over host_buffer for the
\* device buffer
slow_contains(s, t, k) ==
    IF t = "host" THEN k \in DOMAIN s.disk ELSE Buffer_contains(s, "host", k)

\* slow.__setitem__: self.d[key] = self.dump(value)
slow_setitem(s, t, k, v) ==
    IF t = "host" THEN disk_func_setitem(s, k, v)
    ELSE LET s1 == Tick(Called(s, k))
         IN  IF Failed(s1) THEN s1
             ELSE Buffer_setitem(s1, "host", k, device_to_host(v))

\* slow.__getitem__: self.load(self.d[key])
slow_getitem(s, t, k) ==
    IF t = "host" THEN disk_func_getitem(s, k)
    ELSE LET s1 == Buffer_getitem(s, "host", k)
         IN  IF Failed(s1) THEN s1
             ELSE IF ~IsDeviceSerialized(s1.ret)
             THEN Raise(Called(s1, k), "AttributeError")
             ELSE LET s2 == Tick(Called(s1, k))
                  IN  IF Failed(s2) THEN s2
                      ELSE [s2 EXCEPT !.ret = host_to_device(s1.ret)]

\* slow.__delitem__
slow_delitem(s, t, k) ==
    IF t = "host" THEN disk_func_delitem(s, k) ELSE Buffer_delitem(s, "host", k)

\* Buffer.fast_to_slow, the on_evict callback of the LRU
fast_to_slow(s, t, k, v) == slow_setitem(Move(s), t, k, v)

\* a slow_to_fast that returns the value and leaves it in slow
slow_to_fast_stay(s, t, k) == slow_getitem(s, t, k)

\* Buffer.slow_to_fast: value = self.slow[key]; if self.weight(key, value)
\* <= self.n: del self.slow[key]; self.fast[key] = value; return value
slow_to_fast(s, t, k) ==
    LET s1 == slow_getitem(Move(s), t, k)
        value == s1.ret
    IN  IF Failed(s1) THEN s1
        ELSE IF weight(k, value) <= Limit(t)
        THEN LET s2 == slow_delitem(s1, t, k)
                 s3 == IF Failed(s2) THEN s2 ELSE LRU_setitem(s2, t, k, value)
             IN  IF Failed(s3) THEN s3 ELSE [s3 EXCEPT !.ret = value]
        ELSE s1

\* Buffer.__contains__: key in self.fast or key in self.slow
Buffer_contains(s, t, k) == k \in DOMAIN s.d[t] \/ slow_contains(s, t, k)

\* a Buffer.__getitem__ that looks in slow before fast
Buffer_getitem_slowfirst(s, t, k) ==
    IF slow_contains(s, t, k) THEN slow_to_fast(s, t, k)
    ELSE IF k \in DOMAIN s.d[t] THEN LRU_getitem(s, t, k)
    ELSE Raise(s, "KeyError")

\* Buffer.__getitem__: from fast if there, else slow_to_fast, else KeyError
Buffer_getitem(s, t, k) ==
    IF k \in DOMAIN s.d[t] THEN LRU_getitem(s, t, k)
    ELSE IF slow_contains(s, t, k) THEN slow_to_fast(s, t, k)
    ELSE Raise(s, "KeyError")

\* Buffer.__setitem__: a value within n goes to fast (after a copy in slow is
\* deleted), a heavier one goes to slow (after a copy in fast is deleted)
Buffer_setitem(s, t, k, v) ==
    IF weight(k, v) <= Limit(t)
    THEN LET s1 == IF slow_contains(s, t, k) THEN slow_delitem(s, t, k) ELSE s
         IN  IF Failed(s1) THEN s1 ELSE LRU_setitem(s1, t, k, v)
    ELSE LET s1 == IF k \in DOMAIN s.d[t] THEN LRU_delitem(s, t, k) ELSE s
         IN  IF Failed(s1) THEN s1 ELSE slow_setitem(s1, t, k, v)

\* Buffer.__delitem__: from fast if there, else from slow, else KeyError
Buffer_delitem(s, t, k) ==
    IF k \in DOMAIN s.d[t] THEN LRU_delitem(s, t, k)
    ELSE IF slow_contains(s, t, k) THEN slow_delitem(s, t, k)
    ELSE Raise(s, "KeyError")

\* Buffer.__len__ of device_buffer: len(fast) + len(slow)
Buffer_len(s, t) ==
    IF t = "host" THEN Cardinality(DOMAIN s.d["host"]) + Cardinality(DOMAIN s.disk)
    ELSE Cardinality(DOMAIN s.d["device"])
         + Cardinality(DOMAIN s.d["host"]) + Cardinality(DOMAIN s.disk)

\* ------------------------------------------------------------------ DeviceHostFile
\* the frame an operation starts from
Frame(f) ==
    [d    |-> [device |-> device, host |-> host],
     heap |-> [device |-> device_heap, host |-> host_heap],
     disk |-> disk,
     device_keys |-> device_keys,
     n |-> 0, f |-> f, err |-> "none", ret |-> NoValue, copied |-> {}, moves |-> 0]

\* a __setitem__ that forgets "self.device_keys.add(key)"
setitem_noadd(s, key, value) ==
    IF is_device_object(value)
    THEN Buffer_setitem(s, "device", key, value)
    ELSE Buffer_setitem(s, "host", key, value)

\* a __setitem__ that sends every value through device_buffer
setitem_viadevice(s, key, value) ==
    Buffer_setitem(IF is_device_object(value)
                   THEN [s EXCEPT !.device_keys = s.device_keys \cup {key}]
                   ELSE s,
                   "device", key, value)

\* DeviceHostFile.__setitem__
setitem(s, key, value) ==
    IF is_device_object(value)
    THEN Buffer_setitem([s EXCEPT !.device_keys = s.device_keys \cup {key}],
                        "device", key, value)
    ELSE Buffer_setitem(s, "host", key, value)

\* a __getitem__ that answers a miss with a default in place of KeyError
getitem_default(s, key) ==
    IF key \in s.device_keys THEN Buffer_getitem(s, "device", key)
    ELSE IF Buffer_contains(s, "host", key) THEN Buffer_getitem(s, "host", key)
    ELSE [s EXCEPT !.ret = NoValue]

\* DeviceHostFile.__getitem__
getitem(s, key) ==
    IF key \in s.device_keys THEN Buffer_getitem(s, "device", key)
    ELSE IF Buffer_contains(s, "host", key) THEN Buffer_getitem(s, "host", key)
    ELSE Raise(s, "KeyError")

\* a __delitem__ that deletes from host_buffer in place of device_buffer
delitem_hostbuffer(s, key) ==
    Buffer_delitem([s EXCEPT !.device_keys = s.device_keys \ {key}], "host", key)

\* DeviceHostFile.__delitem__
delitem(s, key) ==
    Buffer_delitem([s EXCEPT !.device_keys = s.device_keys \ {key}], "device", key)

\* DeviceHostFile.__len__
len(s) == Buffer_len(s, "device")

\* DeviceHostFile.__iter__: chain(device, host, disk); how often each key is
\* yielded
iter_count(s, k) ==
    (IF k \in DOMAIN s.d["device"] THEN 1 ELSE 0)
    + (IF k \in DOMAIN s.d["host"] THEN 1 ELSE 0)
    + (IF k \in DOMAIN s.disk THEN 1 ELSE 0)

\* the frame of the current state, for the read-only methods
Now == Frame(0)

\* ------------------------------------------------------------------ steps
Commit(s) ==
    /\ clean' = (clean /\ s.err # "IOError")
    /\ device' = s.d["device"]
    /\ device_heap' = s.heap["device"]
    /\ host' = s.d["host"]
    /\ host_heap' = s.heap["host"]
    /\ disk' = s.disk
    /\ device_keys' = s.device_keys
    /\ copied' = s.copied
    /\ moves' = s.moves

A1 == [cls |-> "dev", w |-> 1]

\* a device value that fills the device tier on its own
A2 == [cls |-> "dev", w |-> DeviceLimit]

\* the monitor of two scenarios started on the empty cache: set a, set b,
\* get a, set c with device values of weight 1 (1 to 4), and set a, set b,
\* get a with device values of which only one fits the device (6 to 8)
ScenNext(op, k, v, out) ==
    IF out # "ok" THEN 5
    ELSE IF scen = 0 /\ op = "set" /\ k = "a" /\ v = A1 THEN 1
    ELSE IF scen = 1 /\ op = "set" /\ k = "b" /\ v = A1 THEN 2
    ELSE IF scen = 2 /\ op = "get" /\ k = "a" THEN 3
    ELSE IF scen = 3 /\ op = "set" /\ k = "c" /\ v = A1 THEN 4
    ELSE IF scen = 0 /\ op = "set" /\ k = "a" /\ v = A2 THEN 6
    ELSE IF scen = 6 /\ op = "set" /\ k = "b" /\ v = A2 THEN 7
    ELSE IF scen = 7 /\ op = "get" /\ k = "a" THEN 8
    ELSE 5

Out(s) == IF Failed(s) THEN s.err ELSE "ok"

Set(k, v, f) ==
    LET s == setitem(Frame(f), k, v)
    IN  /\ Commit(s)
        /\ last' = [op |-> "set", key |-> k, val |-> v, out |-> Out(s), ret |-> NoValue]
        /\ live' = IF Failed(s) THEN live ELSE live \cup {k}
        /\ devset' = IF is_device_object(v) THEN devset \cup {k} ELSE devset
        /\ scen' = ScenNext("set", k, v, Out(s))

Get(k, f) ==
    LET s == getitem(Frame(f), k)
    IN  /\ Commit(s)
        /\ last' = [op |-> "get", key |-> k, val |-> NoValue, out |-> Out(s),
                    ret |-> IF Failed(s) THEN NoValue ELSE s.ret]
        /\ UNCHANGED << live, devset >>
        /\ scen' = ScenNext("get", k, NoValue, Out(s))

Delete(k) ==
    LET s == delitem(Frame(0), k)
    IN  /\ Commit(s)
        /\ last' = [op |-> "del", key |-> k, val |-> NoValue, out |-> Out(s), ret |-> NoValue]
        /\ live' = IF Failed(s) THEN live ELSE live \ {k}
        /\ devset' = devset \ {k}
        /\ scen' = ScenNext("del", k, NoValue, Out(s))

Init ==
    /\ device = << >>
    /\ device_heap = << >>
    /\ host = << >>
    /\ host_heap = << >>
    /\ disk = << >>
    /\ device_keys = {}
    /\ last = [op |-> "init", key |-> "a", val |-> NoValue, out |-> "ok", ret |-> NoValue]
    /\ live = {}
    /\ clean = TRUE
    /\ devset = {}
    /\ scen = 0
    /\ copied = {}
    /\ moves = 0
    /\ nops = 0

\* any sequence of operations on two keys
Next ==
    \/ \E k \in Keys2, v \in Values, f \in 0..MaxFail : Set(k, v, f) /\ UNCHANGED nops
    \/ \E k \in Keys2, f \in 0..MaxFail : Get(k, f) /\ UNCHANGED nops
    \/ \E k \in Keys2 : Delete(k) /\ UNCHANGED nops

Spec == Init /\ [][Next]_vars

Counted == nops < MaxOps /\ nops' = nops + 1

\* at most MaxOps operations on three keys, with values that fit the device
Next3 ==
    \/ \E k \in Keys, v \in LightValues, f \in 0..MaxFail : Counted /\ Set(k, v, f)
    \/ \E k \in Keys, f \in 0..MaxFail : Counted /\ Get(k, f)
    \/ \E k \in Keys : Counted /\ Delete(k)

Spec3 == Init /\ [][Next3]_vars

\* ------------------------------------------------------------------ properties
\* the tiers that physically hold key k
Tiers(k) ==
    (IF k \in DOMAIN device THEN {"device"} ELSE {})
    \cup (IF k \in DOMAIN host THEN {"host"} ELSE {})
    \cup (IF k \in DOMAIN disk THEN {"disk"} ELSE {})

Pos(seq, x) == CHOOSE i \in 1..Len(seq) : seq[i] = x

LastSet == last.op = "set" /\ last.out = "ok"

\* C1: after a successful set(k, v), in a run where no transform has raised,
\* an immediate get(k) succeeds and returns v.
C1_RoundTrip ==
    (clean /\ LastSet) =>
        LET g == getitem(Now, last.key)
        IN  ~Failed(g) /\ g.ret = last.val

\* C2: in a run where no transform has raised, a key is never held by two
\* tiers at once, and a key that was set and not deleted is held by one.
C2_ExclusiveResidency ==
    clean => \A k \in Keys :
        /\ Cardinality(Tiers(k)) <= 1
        /\ k \in live => Tiers(k) # {}

Budget ==
    /\ total_weight(Now, "device") <= DeviceLimit
    /\ total_weight(Now, "host") <= HostLimit

\* C4 as stated: after every operation that completes, the weight held by
\* the device tier and by the host tier is within the limit of the tier.
C4_BudgetAfterCompleted == last.out = "ok" => Budget

\* the budgets hold after every operation of a run in which no copy between
\* tiers and no file access has raised
C4_BudgetWhileClean == clean => Budget

\* C5: in a run where no transform has raised, len() is the number of keys
\* set and not deleted, and iteration yields each of them exactly once.
C5_CountConsistency ==
    clean =>
        /\ len(Now) = Cardinality(live)
        /\ \A k \in Keys : iter_count(Now, k) = (IF k \in live THEN 1 ELSE 0)

\* C6: in a run where no transform has raised, a successful delete(k) leaves
\* k in no tier and out of device_keys, so that get(k) raises KeyError and
\* iteration does not yield k; a delete that fails raises KeyError and k is in
\* no tier.
C6_DeleteRemoves ==
    (clean /\ last.op = "del") =>
        /\ Tiers(last.key) = {}
        /\ last.key \notin device_keys
        /\ getitem(Now, last.key).err = "KeyError"
        /\ iter_count(Now, last.key) = 0
        /\ last.out \in {"ok", "KeyError"}

\* C7: after a successful set(k, v) of a value that is no device object, k is
\* in the host buffer (host or disk), not on the device and not in
\* device_keys.
C7_HostSetClearsIndex ==
    (clean /\ LastSet /\ ~is_device_object(last.val)) =>
        /\ Tiers(last.key) \in {{"host"}, {"disk"}}
        /\ last.key \notin device_keys

\* what a file of the disk tier decodes to
Decoded(b) ==
    LET x == deserialize_bytes(b)
    IN  IF IsDeviceSerialized(x) THEN host_to_device(x) ELSE x

\* C8: in a run where no transform raises, a get(k) of a key held by the disk
\* tier returns the value stored for k, and afterwards k is off the disk: in
\* the host tier for a host value, in the device tier for a device object.
C8_PromotionFromDisk ==
    [][ (last'.op = "get" /\ clean' /\ last'.key \in DOMAIN disk) =>
            LET k == last'.key
                v == Decoded(disk[k])
            IN  /\ last'.out = "ok"
                /\ last'.ret = v
                /\ k \notin DOMAIN disk'
                /\ IF is_device_object(v)
                   THEN k \in DOMAIN device' /\ k \notin DOMAIN host'
                   ELSE k \in DOMAIN host' /\ k \notin DOMAIN device' ]_vars

\* the keys that left a tier for the next one in a step, the key of the
\* operation aside
Spilled(dpre, dpost, below) ==
    {x \in (DOMAIN dpre) \ (DOMAIN dpost) : x # last'.key /\ x \in below}

\* the keys a step left alone in a tier
Kept(dpre, dpost) ==
    {y \in (DOMAIN dpre) \cap (DOMAIN dpost) : y # last'.key /\ dpost[y] = dpre[y]}

OldestFirst(heap, spilled, kept) ==
    \A x \in spilled, y \in kept : Pos(heap, x) < Pos(heap, y)

\* a successful set or get leaves its key the most recently used of the tier
\* that holds the value
MostRecent(d, heap, k, v) ==
    (k \in DOMAIN d /\ d[k] \in {v, device_to_host(v)}) =>
        (heap # << >> /\ heap[Len(heap)] = k)

\* C9: the entries a step spills from a tier are older in its recency order
\* than the entries it keeps there; a successful set or get makes its key the
\* most recently used; and set a, set b, get a, set c with room for two
\* spills b and keeps a and c.
C9_LRUOrder ==
    [][ /\ OldestFirst(device_heap,
                       Spilled(device, device', (DOMAIN host') \cup (DOMAIN disk')),
                       Kept(device, device'))
        /\ OldestFirst(host_heap,
                       Spilled(host, host', DOMAIN disk'),
                       Kept(host, host'))
        /\ (last'.out = "ok" /\ last'.op \in {"set", "get"}) =>
              LET v == IF last'.op = "set" THEN last'.val ELSE last'.ret
              IN  /\ MostRecent(device', device_heap', last'.key, v)
                  /\ MostRecent(host', host_heap', last'.key, v)
        /\ scen' = 4 =>
              /\ DOMAIN device' = {"a", "c"}
              /\ device_heap' = << "a", "c" >>
              /\ "b" \in DOMAIN host'
              /\ host'["b"] = device_to_host(A1) ]_vars

\* the scenario has run to its end
C9_Witness == scen = 4

\* C10: a set that raises leaves every tier, the recency orders and
\* device_keys as they were.
C10_FailedSetAtomic ==
    [][ (last'.op = "set" /\ last'.out # "ok") =>
            UNCHANGED << device, device_heap, host, host_heap, disk, device_keys >> ]_vars

\* C11: a get(k) of a key that no tier holds raises KeyError and leaves the
\* contents of every tier, both recency orders and device_keys as they were.
C11_GetAbsent ==
    [][ (last'.op = "get" /\ Tiers(last'.key) = {}) =>
            /\ last'.out = "KeyError"
            /\ UNCHANGED << device, device_heap, host, host_heap, disk, device_keys >> ]_vars

\* a get of an absent key has raised KeyError while another key is stored
C11_Witness ==
    /\ last.op = "get"
    /\ last.out = "KeyError"
    /\ Tiers(last.key) = {}
    /\ \E k \in Keys : Tiers(k) # {}

\* the value a tier below the device holds for key k is a DeviceSerialized
EncodedIn(k) ==
    \/ k \in DOMAIN host /\ IsDeviceSerialized(host[k])
    \/ k \in DOMAIN disk /\ IsDeviceSerialized(deserialize_bytes(disk[k]))

\* C12: a key that was not set with a device object since it was last deleted
\* (a key only ever set with host values is one) is not in device_keys, is not
\* held by the device tier, is not stored as a DeviceSerialized, and no
\* operation hands it to device_to_host or host_to_device.
C12_HostValuesOffDevicePath ==
    \A k \in Keys : k \notin devset =>
        /\ k \notin device_keys
        /\ k \notin DOMAIN device
        /\ k \notin copied
        /\ ~EncodedIn(k)

\* a key set with host values only is stored while the last operation copied
\* another key between device and host
C12_Witness ==
    /\ last.out = "ok"
    /\ copied # {}
    /\ \E k \in live \ devset : Tiers(k) # {}

\* C13: on the empty cache, with a device budget that holds one of the two
\* values, set a then set b (device values) leaves b on the device and a
\* spilled to the host tier; the get(a) that follows returns the value set
\* for a, puts a back on the device and spills b to the host tier.
C13_ReadTriggeredCascade ==
    /\ scen = 7 =>
          /\ device = [k \in {"b"} |-> A2]
          /\ host = [k \in {"a"} |-> device_to_host(A2)]
          /\ disk = << >>
    /\ scen = 8 =>
          /\ last.ret = A2
          /\ device = [k \in {"a"} |-> A2]
          /\ host = [k \in {"b"} |-> device_to_host(A2)]
          /\ disk = << >>

\* the get(a) of the scenario has returned
C13_Witness == scen = 8 /\ last.op = "get" /\ last.key = "a" /\ last.out = "ok"

\* C14: when a copy to the host or a write to disk raises during an
\* operation, every other entry that was held by exactly one tier is still
\* held by exactly one tier: an entry being spilled stays in its source tier
\* or has fully moved to the next.
C14_FailedSpillKeepsEntry ==
    [][ last'.out = "IOError" =>
            \A k \in Keys \ {last'.key} :
                Cardinality(Tiers(k)) = 1 =>
                    Cardinality((IF k \in DOMAIN device' THEN {"device"} ELSE {})
                                \cup (IF k \in DOMAIN host' THEN {"host"} ELSE {})
                                \cup (IF k \in DOMAIN disk' THEN {"disk"} ELSE {})) = 1 ]_vars

\* the key is held by the fastest tier a get asks: the device tier for a key
\* of device_keys, the host tier for any other key
FastHit(k) ==
    IF k \in device_keys THEN k \in DOMAIN device ELSE k \in DOMAIN host

\* C15: a get(k) of a key held by the fastest tier it asks returns the value
\* that tier holds, whichever call is set to raise (so none is made: no copy
\* between device and host, no file access); it makes k the most recently
\* used key of that tier and leaves the contents of every tier, the recency
\* order of the other tier and device_keys as they were.
C15_FastPath ==
    [][ (last'.op = "get" /\ FastHit(last'.key)) =>
            LET k == last'.key
            IN  /\ last'.out = "ok"
                /\ last'.ret = (IF k \in device_keys THEN device[k] ELSE host[k])
                /\ UNCHANGED << device, host, disk, device_keys >>
                /\ copied' = {}
                /\ clean' = clean
                /\ IF k \in device_keys
                   THEN /\ device_heap' = Append(Without(device_heap, k), k)
                        /\ UNCHANGED host_heap
                   ELSE /\ host_heap' = Append(Without(host_heap, k), k)
                        /\ UNCHANGED device_heap ]_vars

\* a get has returned a device entry from the device tier, without a copy,
\* next to another device entry
C15_Witness ==
    /\ last.op = "get"
    /\ last.out = "ok"
    /\ last.key \in device_keys
    /\ last.key \in DOMAIN device
    /\ last.ret = device[last.key]
    /\ copied = {}
    /\ Len(device_heap) = 2
    /\ device_heap[2] = last.key

\* every operation sends values from a tier to another at most this often
C16_BoundedMoves == moves <= 2 * Cardinality(Keys)

\* C16: every operation ends after a bounded number of moves between tiers,
\* and when a set, or a get that promoted its key, completes, the device tier
\* and the host tier are within their limits.
C16_CascadesTerminate ==
    [][ /\ moves' <= 2 * Cardinality(Keys)
        /\ (/\ last'.out = "ok"
            /\ \/ last'.op = "set"
               \/ last'.op = "get" /\ moves' > 0) =>
              /\ SumWeights(device', DOMAIN device') <= DeviceLimit
              /\ SumWeights(host', DOMAIN host') <= HostLimit ]_vars

\* C17: a value held by the host tier or the disk tier is a DeviceSerialized
\* exactly when its key is in device_keys; a get never hands host_to_device a
\* value that is no DeviceSerialized (which raises AttributeError) and never
\* returns a DeviceSerialized.
C17_EncodedMatchesIndex ==
    /\ \A k \in DOMAIN host : IsDeviceSerialized(host[k]) <=> k \in device_keys
    /\ \A k \in DOMAIN disk :
          IsDeviceSerialized(deserialize_bytes(disk[k])) <=> k \in device_keys
    /\ last.op = "get" =>
          /\ last.out # "AttributeError"
          /\ ~IsDeviceSerialized(last.ret)

\* what a get(k) returns, when no transform raises, in the state made of the
\* given dicts, recency orders and device_keys
Lookup(dev, dheap, hst, hheap, dsk, dkeys, k) ==
    LET g == getitem([d    |-> [device |-> dev, host |-> hst],
                      heap |-> [device |-> dheap, host |-> hheap],
                      disk |-> dsk,
                      device_keys |-> dkeys,
                      n |-> 0, f |-> 0, err |-> "none", ret |-> NoValue,
                      copied |-> {}, moves |-> 0], k)
    IN  [out |-> Out(g), ret |-> g.ret]

\* a successful operation leaves every other key that a get finds present,
\* and the get of that key returns the same value as before
OtherKeysPreserved ==
    \A k \in Keys \ {last'.key} :
        LET before == Lookup(device, device_heap, host, host_heap,
                             disk, device_keys, k)
            after  == Lookup(device', device_heap', host', host_heap',
                             disk', device_keys', k)
        IN  before.out = "ok" => after = before

\* C18: a get(k) returns the value last set for k after any sequence of
\* successful operations on other keys: a successful set(k, v) makes get(k)
\* return v (the empty sequence), and every successful operation on another
\* key leaves k present with get(k) returning what it returned before.
C18_ValueSurvivesOtherKeys ==
    [][ last'.out = "ok" =>
            /\ last'.op = "set" =>
                  Lookup(device', device_heap', host', host_heap',
                         disk', device_keys', last'.key)
                      = [out |-> "ok", ret |-> last'.val]
            /\ OtherKeysPreserved ]_vars

\* the second half of C18 on its own
C18_Frame == [][ last'.out = "ok" => OtherKeysPreserved ]_vars

\* C19: every key held by the device tier is in device_keys, so that a get
\* of it is answered from the device tier with the value held there.
C19_DeviceCoveredByIndex ==
    \A k \in DOMAIN device :
        /\ k \in device_keys
        /\ Lookup(device, device_heap, host, host_heap, disk, device_keys, k)
              = [out |-> "ok", ret |-> device[k]]

\* a get has brought a spilled key back to the device tier
C19_Witness ==
    /\ last.op = "get"
    /\ last.out = "ok"
    /\ last.key \in copied
    /\ last.key \in DOMAIN device
    /\ last.key \in device_keys

====
